---- MODULE Spec2Model ----
(***************************************************************************)
(* Model of models/llama_pipeline_model.py: the pipeline stage wrappers    *)
(* (EmbeddingPipe, ParallelTransformerLayerPipe, LayerNormPipe,            *)
(* LMLayerPipe), loss_fn, the eager re-tagging path (_to_layers) and the   *)
(* lazy builder get_model with its topology check and seed offset.         *)
(*                                                                         *)
(* Three specifications share the variables:                               *)
(*   Spec      repeated get_model calls by one worker on one args object   *)
(*   SpecPipe  one forward pass of a tuple through a stage list + loss_fn  *)
(*   SpecCall  a single stage (or loss_fn) called on a tuple of any arity  *)
(***************************************************************************)
EXTENDS Integers, Sequences, FiniteSets, TLC

\* ------------------------------------------------------------------ bounds
MaxPipe == 4
MaxMP == 2
MaxWorld == 8
MaxLayers == 4
MaxCalls == 3
MaxArity == 4
SeqLen == 2
HMod == 5
LongBits == 16
VocabSize == 3
HiddenSize == 2

Seeds == {10, 11}

\* ------------------------------------------------------- get_model: state
VARIABLES
  args,        \* the caller's args object (args.seed is mutated in place)
  rank,        \* torch.distributed.get_rank() of this worker
  seed0,       \* args.seed as it was before the first get_model call
  calls,       \* number of get_model calls made so far
  exc,         \* exception raised by the last get_model call, "" if none
  engine,      \* <<>> or <<kwargs handed to PipelineModule.__init__>> (last call)
  configures,  \* number of deepspeed.checkpointing.configure calls so far
  log,         \* side effects of the last get_model call, in program order
\* ------------------------------------------------ forward pass: state
  build,       \* how the stage list was made: mode "lazy" (get_model's specs,
               \* built by the engine) or "eager" (_to_layers), the model
               \* configuration and the activation_checkpointing flag asked for
  stages,      \* the materialised stage list
  input,       \* the tuple supplied at the pipeline input
  tup,         \* the tuple in flight
  pos,         \* index of the next stage to run (Len(stages)+1: loss_fn)
  status,      \* "running", "done" or "error"
  recv,        \* recv[i]: the tuple stage i received
  last         \* the last stage call: stage, args, result, twin result

vars == <<args, rank, seed0, calls, exc, engine, configures, log,
          build, stages, input, tup, pos, status, recv, last>>
builderVars == <<args, rank, seed0, calls, exc, engine, configures, log>>
pipeVars == <<build, stages, input, tup, pos, status, recv, last>>

\* --------------------------------------------------- configuration values
\* activation_checkpointing_config: None, or a mapping (keys, and the keys
\* whose value is True).
OptionNames == {"partition_activations", "cpu_checkpointing"}
NoneConfig == [is_none |-> TRUE, keys |-> {}, true_keys |-> {}]
ACConfigs ==
  {NoneConfig} \cup
  {[is_none |-> FALSE, keys |-> K, true_keys |-> T] :
      <<K, T>> \in {kt \in (SUBSET OptionNames) \X (SUBSET OptionNames) : kt[2] \subseteq kt[1]}}

ModelConfigs ==
  {[vocab_size |-> VocabSize, hidden_size |-> HiddenSize, num_hidden_layers |-> n] :
      n \in 0..MaxLayers}

\* `if activation_checkpointing_config:` - None and the empty mapping are falsy
Truthy(ac) == ~ac.is_none /\ ac.keys # {}

\* `activation_checkpointing_config is not None`
IsNotNone(ac) == ~ac.is_none

\* activation_checkpointing_config.get(k, False)
DictGet(ac, k) == k \in ac.true_keys

ConfigureArgs(ac) ==
  [partition_activations |-> DictGet(ac, "partition_activations"),
   checkpoint_in_cpu |-> DictGet(ac, "cpu_checkpointing")]

LayerSpec(typename, dims, flags) ==
  [typename |-> typename, dims |-> dims, flags |-> flags]

RECURSIVE Repeat(_, _)
Repeat(x, n) == IF n <= 0 THEN <<>> ELSE <<x>> \o Repeat(x, n - 1)

LayerSpecsNoNorm(model_config, ac) ==
  <<LayerSpec("EmbeddingPipe", <<model_config.vocab_size + 1, model_config.hidden_size>>, <<>>)>>
  \o Repeat(LayerSpec("ParallelTransformerLayerPipe", <<>>, <<IsNotNone(ac)>>),
            model_config.num_hidden_layers)
  \o <<LayerSpec("LMLayerPipe", <<model_config.hidden_size, model_config.vocab_size + 1>>, <<>>)>>

\* the `layers=[...]` list of GPT2ModelPipe.__init__
LayerSpecs(model_config, ac) ==
  <<LayerSpec("EmbeddingPipe", <<model_config.vocab_size + 1, model_config.hidden_size>>, <<>>)>>
  \o Repeat(LayerSpec("ParallelTransformerLayerPipe", <<>>, <<IsNotNone(ac)>>),
            model_config.num_hidden_layers)
  \o <<LayerSpec("LayerNormPipe", <<model_config.hidden_size>>, <<>>),
       LayerSpec("LMLayerPipe", <<model_config.hidden_size, model_config.vocab_size + 1>>, <<>>)>>

\* ------------------------------------------------------ topology and seed
AssertOutcomeEnoughWorkers(a) ==
  IF a.pipe_parallel_size * a.model_parallel_size = 0 THEN "ZeroDivisionError"
  ELSE IF a.world_size >= a.pipe_parallel_size * a.model_parallel_size THEN "ok"
  ELSE "AssertionError"

\* `assert args.world_size % (pp * mp) == 0`
AssertOutcome(a) ==
  IF a.pipe_parallel_size * a.model_parallel_size = 0 THEN "ZeroDivisionError"
  ELSE IF a.world_size % (a.pipe_parallel_size * a.model_parallel_size) = 0 THEN "ok"
  ELSE "AssertionError"

\* `dp = args.world_size // (pp * mp)`
DataParallel(a) == a.world_size \div (a.pipe_parallel_size * a.model_parallel_size)

\* PipeModelDataParallelTopology(num_pp, num_mp, num_dp): axes pipe, data, model
PipeModelDataParallelTopology(num_pp, num_mp, num_dp) ==
  [pipe |-> num_pp, data |-> num_dp, model |-> num_mp]

\* topo.get_coord(rank).pipe: ranks are laid out pipe-major, model-minor
GetCoordPipe(topo, r) == r \div (topo.data * topo.model)

OffsetSeedAllStages(seed, stage_id, topo, mp) ==
  IF 0 < stage_id /\ stage_id <= topo.pipe - 1
    THEN seed + (stage_id * mp)
    ELSE seed

\* `if 0 < stage_id < topo.get_dim('pipe') - 1: args.seed = args.seed + (stage_id * mp)`
OffsetSeed(seed, stage_id, topo, mp) ==
  IF 0 < stage_id /\ stage_id < topo.pipe - 1
    THEN seed + (stage_id * mp)
    ELSE seed

\* side effects of a successful get_model call, in program order
CallLog(a, stage_id, topo, ac) ==
  <<"topology">>
  \o (IF OffsetSeed(a.seed, stage_id, topo, a.model_parallel_size) # a.seed
        THEN <<"seed">> ELSE <<>>)
  \o (IF Truthy(ac) THEN <<"configure">> ELSE <<>>)
  \o <<"layers", "engine">>

\* ------------------------------------------------------------- get_model
GetModel(model_config, ac) ==
  /\ calls < MaxCalls
  /\ calls' = calls + 1
  /\ IF AssertOutcome(args) # "ok"
       THEN /\ exc' = AssertOutcome(args)
            /\ log' = <<>>
            /\ UNCHANGED <<args, engine, configures>>
       ELSE LET mp == args.model_parallel_size
                topo == PipeModelDataParallelTopology(args.pipe_parallel_size, mp,
                                                     DataParallel(args))
                stage_id == GetCoordPipe(topo, rank)
                seed == OffsetSeed(args.seed, stage_id, topo, mp)
            IN /\ exc' = ""
               /\ args' = [args EXCEPT !.seed = seed]
               /\ configures' = IF Truthy(ac) THEN configures + 1 ELSE configures
               /\ engine' = <<[layers |-> LayerSpecs(model_config, ac),
                               topology |-> topo,
                               base_seed |-> seed,
                               configure |-> IF Truthy(ac) THEN <<ConfigureArgs(ac)>> ELSE <<>>,
                               ac |-> ac,
                               model_config |-> model_config]>>
               /\ log' = CallLog(args, stage_id, topo, ac)
  /\ UNCHANGED <<rank, seed0>>
  /\ UNCHANGED pipeVars


\* ------------------------------------------------------- python values
\* float elements: finite (an abstract value) or -inf
F(v) == [isinf |-> FALSE, val |-> v]
FNegInf == [isinf |-> TRUE, val |-> -1]

Tensor(dtype, data) == [py |-> "Tensor", dtype |-> dtype, data |-> data]
PyTuple(items) == [py |-> "tuple", items |-> items]

\* result of a call: the exception raised ("" if none), the returned tuple,
\* and the argument lists handed to LlamaDecoderLayer.forward during the call
Return(value, block_args) == [exc |-> "", value |-> value, block_args |-> block_args]
Raise(e) == [exc |-> e, value |-> <<>>, block_args |-> <<>>]

\* a module instance: its class and the instance attributes set by this file
Module(cls, attrs, ac) == [cls |-> cls, attrs |-> attrs, activation_checkpointing |-> ac]

\* `.long()` of a float: -inf is outside the range of int64, the conversion is
\* undefined; the value produced is the minimum integer (x86 "integer
\* indefinite", saturation on ARM and CUDA).  The 64-bit width is scaled to
\* LongBits.
LongMin == -(2 ^ (LongBits - 1))
LongOfNegInf == {LongMin}

ToLong(x, ub) == IF x.isinf THEN ub ELSE x.val

\* torch.where(mask == True, float("-inf"), 0).long()
MaskToBias(mask, ub) ==
  Tensor("int64",
         [i \in DOMAIN mask.data |->
            ToLong(IF mask.data[i] = 1 THEN FNegInf ELSE F(0), ub)])

\* ---------------------------------------------- the wrapped layer kernels
RECURSIVE SumTo(_, _)
SumTo(f, n) == IF n = 0 THEN 0 ELSE f[n] + SumTo(f, n - 1)

\* torch.nn.Embedding.forward
EmbeddingForward(input_ids) ==
  Tensor("float32", [i \in DOMAIN input_ids.data |-> F((2 * input_ids.data[i] + 1) % HMod)])

\* LlamaDecoderLayer.forward(module, hidden_states, attention_mask, position_ids):
\* returns the 1-tuple (hidden_states,); a key position contributes when its
\* bias is zero
LlamaDecoderLayerForward(module, hidden_states, attention_mask, position_ids) ==
  LET n == Len(attention_mask.data)
      ctx == [j \in 1..n |->
                IF attention_mask.data[j] = 0 THEN j + position_ids.data[j] ELSE 0]
  IN PyTuple(<<Tensor("float32",
                      [i \in DOMAIN hidden_states.data |->
                         F((hidden_states.data[i].val + 1 + SumTo(ctx, n)) % HMod)])>>)

\* LlamaRMSNorm.forward
RMSNormForward(hidden_states) ==
  Tensor("float32", [i \in DOMAIN hidden_states.data |-> F((2 * hidden_states.data[i].val) % HMod)])

\* torch.nn.Linear.forward
LinearForward(hidden_states) ==
  Tensor("float32", [i \in DOMAIN hidden_states.data |-> F((hidden_states.data[i].val + 3) % HMod)])

\* deepspeed.checkpointing.checkpoint(function, *args): runs the function and
\* returns outputs[0] when there is one output, the tuple otherwise
DeepspeedCheckpoint(outputs) ==
  IF Len(outputs.items) = 1 THEN outputs.items[1] ELSE outputs

\* ------------------------------------------------------------ the stages
EmbeddingPipeForward(self, a) ==
  IF Len(a) # 3 THEN Raise("ValueError")
  ELSE Return(<<EmbeddingForward(a[1]), a[2], a[3]>>, <<>>)

CkptForwardSwapped(self, a, ub) ==
  IF Len(a) # 3 THEN Raise("ValueError")
  ELSE LET attention_mask == MaskToBias(a[3], ub)
           outputs == DeepspeedCheckpoint(
                        LlamaDecoderLayerForward(self, a[1], a[2], attention_mask))
       IN Return(<<outputs, a[2], a[3]>>, <<<<a[1], a[2], attention_mask>>>>)

\* ParallelTransformerLayerPipe._ckpt_forward
CkptForward(self, a, ub) ==
  IF Len(a) # 3 THEN Raise("ValueError")
  ELSE LET attention_mask == MaskToBias(a[3], ub)
           outputs == DeepspeedCheckpoint(
                        LlamaDecoderLayerForward(self, a[1], attention_mask, a[2]))
       IN Return(<<outputs, a[2], a[3]>>, <<<<a[1], attention_mask, a[2]>>>>)

ParallelTransformerLayerPipeForwardBias(self, a, ub) ==
  IF "activation_checkpointing" \notin self.attrs THEN Raise("AttributeError")
  ELSE IF self.activation_checkpointing THEN CkptForward(self, a, ub)
  ELSE IF Len(a) # 3 THEN Raise("ValueError")
  ELSE LET attention_mask == MaskToBias(a[3], ub)
           outputs == LlamaDecoderLayerForward(self, a[1], attention_mask, a[2])
       IN Return(<<outputs.items[1], a[2], attention_mask>>,
                 <<<<a[1], attention_mask, a[2]>>>>)

\* ParallelTransformerLayerPipe.forward; reading self.activation_checkpointing
\* raises AttributeError on an instance that never ran __init__ of this class
ParallelTransformerLayerPipeForward(self, a, ub) ==
  IF "activation_checkpointing" \notin self.attrs THEN Raise("AttributeError")
  ELSE IF self.activation_checkpointing THEN CkptForward(self, a, ub)
  ELSE IF Len(a) # 3 THEN Raise("ValueError")
  ELSE LET attention_mask == MaskToBias(a[3], ub)
           outputs == LlamaDecoderLayerForward(self, a[1], attention_mask, a[2])
       IN Return(<<outputs.items[1], a[2], a[3]>>,
                 <<<<a[1], attention_mask, a[2]>>>>)

\* LayerNormPipe.forward: `hidden_states, *_ = args`
LayerNormPipeForward(self, a) ==
  IF Len(a) < 1 THEN Raise("ValueError")
  ELSE Return(<<RMSNormForward(a[1])>>, <<>>)

LMLayerPipeForwardStarred(self, a) ==
  IF Len(a) < 1 THEN Raise("ValueError")
  ELSE Return(<<LinearForward(a[1])>>, <<>>)

\* LMLayerPipe.forward: `hidden_states, = args`
LMLayerPipeForward(self, a) ==
  IF Len(a) # 1 THEN Raise("ValueError")
  ELSE Return(<<LinearForward(a[1])>>, <<>>)

\* loss_fn(outputs, labels): `logits, = outputs`, then the cross entropy
LossFn(outputs, labels) ==
  IF Len(outputs) # 1 THEN Raise("ValueError")
  ELSE Return(<<Tensor("float32",
                       <<F(SumTo([i \in DOMAIN labels.data |->
                                    (outputs[1].data[i].val + labels.data[i]) % HMod],
                                 Len(labels.data)) % HMod)>>)>>,
              <<>>)

LossModule == Module("loss_fn", {}, FALSE)

\* module.forward(args), dispatched on the class of the instance
Forward(self, a, ub) ==
  CASE self.cls = "EmbeddingPipe" -> EmbeddingPipeForward(self, a)
    [] self.cls = "ParallelTransformerLayerPipe" -> ParallelTransformerLayerPipeForward(self, a, ub)
    [] self.cls = "LayerNormPipe" -> LayerNormPipeForward(self, a)
    [] self.cls = "LMLayerPipe" -> LMLayerPipeForward(self, a)

\* ------------------------------------------------- building the stage list
\* ParallelTransformerLayerPipe.__init__(config, activation_checkpointing)
ParallelTransformerLayerPipeInit(activation_checkpointing) ==
  Module("ParallelTransformerLayerPipe", {"activation_checkpointing"}, activation_checkpointing)

\* LayerSpec.build(): typename(*module_args)
BuildSpec(spec) ==
  IF spec.typename = "ParallelTransformerLayerPipe"
    THEN ParallelTransformerLayerPipeInit(spec.flags[1])
    ELSE Module(spec.typename, {}, FALSE)

BuildAll(specs) == [i \in 1..Len(specs) |-> BuildSpec(specs[i])]

\* the already-built model handed to _to_layers
LlamaForCausalLM(model_config) ==
  [embed_tokens |-> Module("Embedding", {}, FALSE),
   layers |-> Repeat(Module("LlamaDecoderLayer", {}, FALSE), model_config.num_hidden_layers),
   norm |-> Module("LlamaRMSNorm", {}, FALSE),
   lm_head |-> Module("Linear", {}, FALSE)]

WrapEmbedLayer(layer) == [layer EXCEPT !.cls = "EmbeddingPipe"]

\* _wrap_decoder_layer: only the class is replaced, __init__ does not run and
\* the activation_checkpointing argument is not stored
WrapDecoderLayer(layer, activation_checkpointing) ==
  [layer EXCEPT !.cls = "ParallelTransformerLayerPipe"]

WrapNormLayer(layer) == [layer EXCEPT !.cls = "LayerNormPipe"]
WrapLmLayer(layer) == [layer EXCEPT !.cls = "LMLayerPipe"]

ToLayers(lm_model, activation_checkpointing) ==
  <<WrapEmbedLayer(lm_model.embed_tokens)>>
  \o [i \in 1..Len(lm_model.layers) |->
        WrapDecoderLayer(lm_model.layers[i], activation_checkpointing)]
  \o <<WrapNormLayer(lm_model.norm), WrapLmLayer(lm_model.lm_head)>>

\* ------------------------------------------------------------- the inputs
TokenIds == {Tensor("int64", [i \in 1..SeqLen |-> (i + k) % (VocabSize + 1)]) : k \in 0..1}
PositionIds == {Tensor("int64", [i \in 1..SeqLen |-> i - 1 + k]) : k \in 0..1}
Masks == {Tensor("bool", m) : m \in [1..SeqLen -> {0, 1}]}
Inputs == {<<t, p, m>> : t \in TokenIds, p \in PositionIds, m \in Masks}
Labels == Tensor("int64", [i \in 1..SeqLen |-> i % (VocabSize + 1)])

ConfigOfFlag(flag) ==
  IF flag THEN [is_none |-> FALSE, keys |-> {"partition_activations"},
                true_keys |-> {"partition_activations"}]
  ELSE NoneConfig

\* the twin of a transformer stage: same instance, the other checkpointing flag
Twin(stage, a, ub) ==
  IF stage.cls = "ParallelTransformerLayerPipe" /\ "activation_checkpointing" \in stage.attrs
    THEN <<Forward([stage EXCEPT !.activation_checkpointing = ~@], a, ub)>>
    ELSE <<>>

CallRecord(stage, a, res, twin) == [stage |-> stage, args |-> a, res |-> res, twin |-> twin]

\* ------------------------------------------------------- the forward pass
PipeStep ==
  /\ status = "running"
  /\ pos \in 1..Len(stages)
  /\ \E ub \in LongOfNegInf :
       LET res == Forward(stages[pos], tup, ub)
       IN /\ last' = <<CallRecord(stages[pos], tup, res, Twin(stages[pos], tup, ub))>>
          /\ recv' = Append(recv, tup)
          /\ IF res.exc = ""
               THEN /\ tup' = res.value
                    /\ pos' = pos + 1
                    /\ status' = status
               ELSE /\ status' = "error"
                    /\ UNCHANGED <<tup, pos>>
  /\ UNCHANGED <<build, stages, input>>
  /\ UNCHANGED builderVars

PipeLoss ==
  /\ status = "running"
  /\ pos = Len(stages) + 1
  /\ LET res == LossFn(tup, Labels)
     IN /\ last' = <<CallRecord(LossModule, tup, res, <<>>)>>
        /\ recv' = Append(recv, tup)
        /\ status' = IF res.exc = "" THEN "done" ELSE "error"
        /\ tup' = res.value
  /\ UNCHANGED <<build, stages, input, pos>>
  /\ UNCHANGED builderVars

\* ----------------------------------- one call with a tuple of any arity
\* a tuple of arity n fit for the stage: the first three positions are the
\* well-typed triple, further positions repeat the first tensor
TupleOfArity(stage, n) ==
  LET first == IF stage.cls = "EmbeddingPipe" THEN input[1] ELSE EmbeddingForward(input[1])
      triple == <<first, input[2], input[3]>>
  IN [i \in 1..n |-> IF i <= 3 THEN triple[i] ELSE first]

CallStage(k, n) ==
  /\ k \in 1..Len(stages)
  /\ \E ub \in LongOfNegInf :
       LET a == TupleOfArity(stages[k], n)
       IN last' = <<CallRecord(stages[k], a, Forward(stages[k], a, ub), Twin(stages[k], a, ub))>>
  /\ UNCHANGED <<build, stages, input, tup, pos, status, recv>>
  /\ UNCHANGED builderVars

CallLoss(n) ==
  /\ LET a == TupleOfArity(LossModule, n)
     IN last' = <<CallRecord(LossModule, a, LossFn(a, Labels), <<>>)>>
  /\ UNCHANGED <<build, stages, input, tup, pos, status, recv>>
  /\ UNCHANGED builderVars

ArgsSet ==
  [pipe_parallel_size : 0..MaxPipe, model_parallel_size : 1..MaxMP,
   world_size : 1..MaxWorld, seed : Seeds]

PipeIdle ==
  /\ build = <<>> /\ stages = <<>> /\ input = <<>> /\ tup = <<>>
  /\ pos = 0 /\ status = "idle" /\ recv = <<>> /\ last = <<>>

Init ==
  /\ args \in ArgsSet
  /\ rank \in 0..(MaxWorld - 1)
  /\ rank < args.world_size
  /\ seed0 = args.seed
  /\ calls = 0
  /\ exc = ""
  /\ engine = <<>>
  /\ configures = 0
  /\ log = <<>>
  /\ PipeIdle

Next == \E model_config \in ModelConfigs, ac \in ACConfigs : GetModel(model_config, ac)

Spec == Init /\ [][Next]_vars

BuilderIdle ==
  /\ args = [pipe_parallel_size |-> 1, model_parallel_size |-> 1, world_size |-> 1, seed |-> 10]
  /\ rank = 0 /\ seed0 = 10 /\ calls = 0 /\ exc = "" /\ engine = <<>>
  /\ configures = 0 /\ log = <<>>

InitPipe ==
  /\ BuilderIdle
  /\ \E model_config \in ModelConfigs, flag \in BOOLEAN, m \in {"lazy", "eager"} :
       /\ build = [mode |-> m, model_config |-> model_config, activation_checkpointing |-> flag]
       /\ stages = IF m = "lazy"
                     THEN BuildAll(LayerSpecs(model_config, ConfigOfFlag(flag)))
                     ELSE ToLayers(LlamaForCausalLM(model_config), flag)
  /\ input \in Inputs
  /\ tup = input
  /\ pos = 1
  /\ status = "running"
  /\ recv = <<>>
  /\ last = <<>>

NextPipe == PipeStep \/ PipeLoss

SpecPipe == InitPipe /\ [][NextPipe]_vars

NextCall ==
  \/ \E k \in 1..(MaxLayers + 3), n \in 0..MaxArity : CallStage(k, n)
  \/ \E n \in 0..MaxArity : CallLoss(n)

SpecCall == InitPipe /\ [][NextCall]_vars

\* =====================================================================
\* Properties
\* =====================================================================
TransformerCls == "ParallelTransformerLayerPipe"

\* the pipeline stage that owns rank r: stage s owns the ranks
\* s*dp*mp .. (s+1)*dp*mp - 1
StageOf(topo, r) ==
  CHOOSE s \in 0..(topo.pipe - 1) :
    s * topo.data * topo.model <= r /\ r < (s + 1) * topo.data * topo.model

\* the seed-offset law as stated
SeedLaw(S, s, P, M) == IF s = 0 \/ s = P - 1 THEN S ELSE S + s * M

\* the arity a stage unpacks
ArityOk(cls, n) ==
  CASE cls = "EmbeddingPipe" -> n = 3
    [] cls = TransformerCls -> n = 3
    [] cls = "LayerNormPipe" -> n >= 1
    [] cls = "LMLayerPipe" -> n = 1
    [] cls = "loss_fn" -> n = 1

\* the arity the predecessor of a stage is specified to emit
EmittedArity(cls) ==
  CASE cls = "EmbeddingPipe" -> 3
    [] cls = TransformerCls -> 3
    [] cls = "LayerNormPipe" -> 3
    [] cls = "LMLayerPipe" -> 1
    [] cls = "loss_fn" -> 1

ClsAt(i) == IF i <= Len(stages) THEN stages[i].cls ELSE "loss_fn"

\* C1: through the stage list built by get_model, fed a 3-tuple, every stage
\* (and loss_fn) receives a tuple of the arity it unpacks, no stage raises,
\* the run ends with loss_fn receiving a 1-tuple, and every transformer stage
\* receives the position_ids and the boolean mask of the pipeline input.
C1_TupleContract ==
  build.mode = "lazy" =>
    /\ Len(stages) = build.model_config.num_hidden_layers + 3
    /\ status # "error"
    /\ \A i \in 1..Len(recv) :
         /\ ArityOk(ClsAt(i), Len(recv[i]))
         /\ ClsAt(i) = TransformerCls =>
              /\ Len(recv[i]) = 3
              /\ recv[i][2] = input[2]
              /\ recv[i][3] = input[3]
    /\ status = "done" =>
         /\ Len(recv) = Len(stages) + 1
         /\ Len(recv[Len(recv)]) = 1

C1_Witness ==
  /\ build.mode = "lazy"
  /\ build.model_config.num_hidden_layers >= 2
  /\ status = "done"
  /\ \E i \in 1..SeqLen : input[3].data[i] = 1

\* C2: the stage-specification list handed to the engine is: embedding,
\* N transformer blocks all carrying the flag "config is not None",
\* normalization, output projection; its length is N + 3.
C2_StageList ==
  engine # <<>> =>
    LET L == engine[1].layers
        N == engine[1].model_config.num_hidden_layers
    IN /\ Len(L) = 1 + N + 1 + 1
       /\ L[1].typename = "EmbeddingPipe"
       /\ \A i \in 2..(N + 1) :
            /\ L[i].typename = TransformerCls
            /\ L[i].flags = <<~engine[1].ac.is_none>>
       /\ L[N + 2].typename = "LayerNormPipe"
       /\ L[N + 3].typename = "LMLayerPipe"

C2_Witness ==
  /\ engine # <<>>
  /\ engine[1].model_config.num_hidden_layers = 4
  /\ Len(engine[1].layers) = 7
  /\ engine[1].layers[5].flags = <<TRUE>>

\* C3: every successful get_model call hands the engine the seed the
\* seed-offset law gives for the value args.seed had when the call began:
\* unchanged for the first and last stage, plus stage * mp for an interior one.
C3_SeedOffsetLaw ==
  [][(calls' = calls + 1 /\ exc' = "") =>
       engine'[1].base_seed =
         SeedLaw(args.seed, StageOf(engine'[1].topology, rank),
                 args.pipe_parallel_size, args.model_parallel_size)]_vars

C3_Witness ==
  /\ calls = 1 /\ engine # <<>>
  /\ engine[1].topology.pipe = 4 /\ engine[1].topology.model = 2
  /\ seed0 = 10
  /\ StageOf(engine[1].topology, rank) = 2
  /\ engine[1].base_seed = 14

\* C4: a transformer stage and its twin with the other checkpointing flag
\* raise the same exception or return the same tuple, having handed the block
\* the same arguments in the same order; on a 3-tuple the result is a 3-tuple
\* with a tensor (not a tuple) first and the input's position_ids and mask.
C4_CheckpointEquivalence ==
  (last # <<>> /\ last[1].twin # <<>>) =>
    LET c == last[1]
        r == c.res
        t == c.twin[1]
    IN /\ t.exc = r.exc
       /\ t.block_args = r.block_args
       /\ Len(t.value) = Len(r.value)
       /\ \A i \in 1..Len(r.value) : t.value[i].py = r.value[i].py
       /\ t.value = r.value
       /\ Len(c.args) = 3 =>
            /\ r.exc = ""
            /\ Len(r.value) = 3
            /\ r.value[1].py = "Tensor"
            /\ r.value[2] = c.args[2]
            /\ r.value[3] = c.args[3]

C4_Witness ==
  /\ last # <<>>
  /\ last[1].twin # <<>>
  /\ last[1].stage.activation_checkpointing
  /\ Len(last[1].args) = 3
  /\ last[1].res.exc = ""
  /\ \E i \in 1..SeqLen : last[1].args[3].data[i] = 1

\* C5 (as claimed): the eager stage list has the length and ordering of the
\* lazy one, a stage of either mode returns the same outcome shape on the same
\* tuple, and a re-tagged transformer block completes on a 3-tuple and carries
\* the activation_checkpointing flag it was wrapped with.
C5_EagerMatchesLazy ==
  build.mode = "eager" =>
    LET lazy == BuildAll(LayerSpecs(build.model_config,
                                    ConfigOfFlag(build.activation_checkpointing)))
    IN /\ Len(stages) = Len(lazy)
       /\ \A i \in 1..Len(stages) : stages[i].cls = lazy[i].cls
       /\ (last # <<>> /\ last[1].stage.cls # "loss_fn") =>
            LET c == last[1]
                twin == CHOOSE m \in {lazy[i] : i \in 1..Len(lazy)} : m.cls = c.stage.cls
            IN \A ub \in LongOfNegInf :
                 /\ c.res.exc = Forward(twin, c.args, ub).exc
                 /\ Len(c.res.value) = Len(Forward(twin, c.args, ub).value)
                 /\ (c.stage.cls = TransformerCls /\ Len(c.args) = 3) =>
                      /\ c.res.exc = ""
                      /\ "activation_checkpointing" \in c.stage.attrs
                      /\ c.stage.activation_checkpointing = build.activation_checkpointing

\* what a step of get_model must satisfy for the topology check
NotMultiple(a) ==
  ~\E k \in 0..a.world_size :
      a.world_size = k * a.pipe_parallel_size * a.model_parallel_size

\* C6: a get_model call with world_size not a multiple of pp * mp raises and
\* leaves args (the seed), the engine, the checkpointing runtime untouched and
\* performs no side effect; a call that succeeds uses a topology with
\* world_size = pp * mp * dp.
C6_FailFast ==
  [][(calls' = calls + 1) =>
       /\ NotMultiple(args) =>
            /\ exc' # ""
            /\ args' = args
            /\ engine' = engine
            /\ configures' = configures
            /\ log' = <<>>
       /\ exc' = "" =>
            /\ engine'[1].topology.pipe = args.pipe_parallel_size
            /\ engine'[1].topology.model = args.model_parallel_size
            /\ args.world_size = engine'[1].topology.pipe * engine'[1].topology.model
                                   * engine'[1].topology.data]_vars

C6_Witness ==
  /\ calls = 1
  /\ exc = "AssertionError"
  /\ NotMultiple(args)
  /\ engine = <<>> /\ configures = 0 /\ args.seed = seed0

\* C7 (as claimed): every stage and loss_fn, given a tuple whose arity differs
\* from the one its predecessor emits, raises the unpacking error.
C7_ArityMismatchRaises ==
  last # <<>> =>
    (Len(last[1].args) # EmittedArity(last[1].stage.cls) =>
       /\ last[1].res.exc = "ValueError"
       /\ last[1].res.value = <<>>)

\* C7 (amended): embedding, transformer block, output projection and loss_fn
\* raise on every arity other than the one they unpack and return nothing -
\* the unpacking error, except for a re-tagged transformer block, whose every
\* call raises AttributeError; normalization raises the unpacking error on the
\* empty tuple only and returns a 1-tuple for every arity >= 1.
C7_ArityMismatchAmended ==
  last # <<>> =>
    LET c == last[1]
        cls == c.stage.cls
        n == Len(c.args)
    IN /\ (cls # "LayerNormPipe" /\ n # EmittedArity(cls)) =>
            /\ c.res.exc # ""
            /\ c.res.value = <<>>
            /\ c.res.exc = IF cls = TransformerCls
                              /\ "activation_checkpointing" \notin c.stage.attrs
                             THEN "AttributeError" ELSE "ValueError"
       /\ cls = "LayerNormPipe" =>
            IF n = 0 THEN c.res.exc = "ValueError" /\ c.res.value = <<>>
            ELSE c.res.exc = "" /\ Len(c.res.value) = 1

C7_Witness ==
  /\ last # <<>>
  /\ last[1].stage.cls = "LMLayerPipe"
  /\ Len(last[1].args) = 3
  /\ last[1].res.exc = "ValueError"

IsNegInf(t, i) == t.dtype = "float32" /\ t.data[i].isinf /\ t.data[i].val < 0
IsZero(t, i) == IF t.dtype = "float32" THEN ~t.data[i].isinf /\ t.data[i].val = 0
                ELSE t.data[i] = 0

\* C8 (as claimed): the attention bias handed to the block is negative
\* infinity where the mask entry is True and zero where it is False.
C8_MaskToBias ==
  (last # <<>> /\ last[1].res.block_args # <<>>) =>
    LET bias == last[1].res.block_args[1][2]
        mask == last[1].args[3]
    IN \A i \in 1..SeqLen :
         /\ mask.data[i] = 1 => IsNegInf(bias, i)
         /\ mask.data[i] = 0 => IsZero(bias, i)

\* C9 (as claimed): whatever the number of get_model calls, the seed handed
\* to the engine is the seed-offset law applied to the original seed.
C9_OffsetOnce ==
  engine # <<>> =>
    engine[1].base_seed =
      SeedLaw(seed0, StageOf(engine[1].topology, rank),
              engine[1].topology.pipe, engine[1].topology.model)

IndexOf(sq, x) == CHOOSE i \in 1..Len(sq) : sq[i] = x
Occurs(sq, x) == \E i \in 1..Len(sq) : sq[i] = x

\* C10 (as claimed): the call configures the checkpointing runtime exactly
\* when its transformer stage specifications carry checkpointing enabled; an
\* absent mapping gives no configure call and disabled stages; enabled stages
\* are handed to the engine after the configure call.
C10_ConfigureIffCheckpointing ==
  (engine # <<>> /\ exc = "" /\ engine[1].model_config.num_hidden_layers >= 1) =>
    LET L == engine[1].layers
        T == {i \in 1..Len(L) : L[i].typename = TransformerCls}
        enabled == \A i \in T : L[i].flags = <<TRUE>>
    IN /\ Occurs(log, "configure") <=> enabled
       /\ engine[1].ac.is_none => (~Occurs(log, "configure") /\ ~enabled)
       /\ enabled => (/\ Occurs(log, "configure")
                      /\ IndexOf(log, "configure") < IndexOf(log, "engine"))

====
